---- MODULE Spec2Model ----
(***************************************************************************)
(* The live-session manager of src/hooks/useLiveSession.ts, driven by the  *)
(* UI of src/App.tsx.  One state machine: the hook's React state and refs, *)
(* the platform resources they point to (audio contexts, capture streams,  *)
(* channels, frame timers, audio taps), every connect() attempt and every  *)
(* disconnect() invocation with its position between awaits, and the       *)
(* decodes in flight.  Every await is a suspension point: the code before  *)
(* it and the code after it are separate actions.                          *)
(***************************************************************************)
EXTENDS Integers, Sequences, FiniteSets, TLC

\* ------------------------------------------------------------- bounds
MaxConnects == 2   \* connect() calls in the lifecycle specification
MaxSessions == 1   \* connect() calls in the playback specification
MaxDisc == 3       \* disconnect() invocations suspended or failed at a time
MaxMsgs == 2       \* inbound frames
MaxDur == 5        \* buffer durations, in tenths of a second
MaxClock == 1      \* readings of an output context's clock, in tenths of a second
MaxCalls == 2      \* function calls in one inbound frame
MaxIds == 2        \* invocation ids the remote peer uses
MaxTicks == 2      \* callbacks of the audio tap and the frame timer
MaxTexts == 2      \* sendTextMessage calls

Attempts == 1..MaxConnects
DiscIds == 1..MaxDisc
Handles == 1..MaxMsgs
Ids == 1..MaxIds

\* ------------------------------------------------------------- state
VARIABLES
  apiKey,            \* the credential handed to the hook is non-empty
  connectionState,   \* useState<ConnectionState>
  isAudioOnly,       \* useState(false)
  isAudioOnlyRef,    \* useRef(false), synced from isAudioOnly
  summaries,         \* finishLesson calls suspended in generateContent
  mounted,           \* <App/> is mounted: canvasRef.current and videoRef.current are set
  inputCtxRef,       \* inputAudioContextRef.current   (0 = null)
  outputCtxRef,      \* outputAudioContextRef.current  (0 = null)
  mediaStreamRef,    \* mediaStreamRef.current         (0 = null)
  audioProcessorRef, \* audioProcessorRef.current      (0 = null)
  sessionRef,        \* sessionRef.current             (0 = null)
  videoIntervalRef,  \* videoIntervalRef.current       (0 = null)
  nextStart,         \* nextStartTimeRef.current
  sourceNodes,       \* sourceNodesRef.current
  stopped,           \* history: the handles disconnect() called stop() on
  ended,             \* history: the handles whose onended has fired
  dropped,           \* history: the frames whose decode rejected
  nConnect,          \* connect() calls made so far
  att,               \* per connect() attempt: position and captured isAudioOnly
  ctxIn,             \* per attempt: its input AudioContext
  ctxOut,            \* per attempt: its output AudioContext
  outTime,           \* per attempt: currentTime of its output AudioContext
  stream,            \* per attempt: its MediaStream
  chan,              \* per attempt: its live channel (sessionPromise)
  timer,             \* per attempt: the interval its onopen created
  tap,               \* per attempt: the input context its ScriptProcessor is on
  closingIn,         \* per disconnect(): the input context whose close() it awaits (0 = none)
  disc,              \* per disconnect() invocation: position and origin
  decodes,           \* onmessage invocations suspended in decodeAudioData
  nMsg,              \* inbound frames delivered so far
  schedule,          \* history: the source.start() calls, in order
  clarity,           \* App.tsx useState<ClarityUpdate>
  messages,          \* App.tsx useState<ChatMessage[]>
  curIn,             \* per attempt: currentInputTranscription of its closure
  curOut,            \* per attempt: currentOutputTranscription of its closure
  sent,              \* history: the calls made on the channels, in order
  arrived,           \* history: the transcription parts of the inbound frames
  invoked,           \* history: the inbound function calls, in arrival order
  emitted,           \* history: the onTranscription calls, in order
  turns,             \* history: the turn-complete markers handled, in order
  ticks,             \* history: the tap and frame-timer callbacks, in order
  deferred,          \* per attempt: callbacks queued on its pending sessionPromise
  texts,             \* history: the sendTextMessage calls, in order
  opened,            \* the attempts whose sessionPromise has resolved
  cancelledPend,     \* history: attempts torn down while their setup was pending
  cancelledGum       \* history: attempts torn down while in getUserMedia

refVars == <<inputCtxRef, outputCtxRef, mediaStreamRef, audioProcessorRef,
             sessionRef, videoIntervalRef>>
resVars == <<ctxIn, ctxOut, stream, chan, timer, tap, closingIn>>
playVars == <<nextStart, sourceNodes, decodes, nMsg, schedule, outTime,
              stopped, ended, dropped>>
uiVars == <<apiKey, isAudioOnly, isAudioOnlyRef, summaries, mounted>>
histVars == <<cancelledPend, cancelledGum>>
appVars == <<clarity, messages>>
routerVars == <<curIn, curOut, sent, arrived, invoked, emitted, turns, ticks,
                deferred, texts, opened>>
vars == <<connectionState, nConnect, att, disc, refVars, resVars, playVars,
          uiVars, histVars, appVars, routerVars>>

Max(a, b) == IF a >= b THEN a ELSE b

IdleDisc == [pc |-> "idle", fatal |-> FALSE, pend |-> {}, gum |-> {}]

\* App.tsx line 30 and line 84: the clarity shown before and at a lesson start.
WaitingToStart == [score |-> 0, reasoning |-> "Waiting to start..."]
StartingLesson == [score |-> 0, reasoning |-> "Starting lesson..."]

\* App.tsx line 139: the clarity shown when a lesson has been finished.
LessonFinished == [score |-> 0, reasoning |-> "Lesson finished."]

\* App.tsx 31-33 and 140: the chat entry with WELCOME_MESSAGE, and App.tsx
\* 153: the entry handleImStuck adds.  Texts are sequences of characters;
\* these two are abbreviated.
WelcomeMessage == [role |-> "model", text |-> <<"W", "e", "l", "c", "o", "m", "e">>]
StuckMessage == [role |-> "user", text |-> <<"S", "O", "S">>]

Init ==
  /\ apiKey \in BOOLEAN
  /\ connectionState = "DISCONNECTED"
  /\ isAudioOnly = FALSE
  /\ isAudioOnlyRef = FALSE
  /\ summaries = 0
  /\ mounted = TRUE
  /\ inputCtxRef = 0
  /\ outputCtxRef = 0
  /\ mediaStreamRef = 0
  /\ audioProcessorRef = 0
  /\ sessionRef = 0
  /\ videoIntervalRef = 0
  /\ nextStart = 0
  /\ sourceNodes = {}
  /\ nConnect = 0
  /\ att = [k \in Attempts |-> [pc |-> "idle", audioOnly |-> FALSE]]
  /\ ctxIn = [k \in Attempts |-> "none"]
  /\ closingIn = [d \in DiscIds |-> 0]
  /\ ctxOut = [k \in Attempts |-> "none"]
  /\ outTime = [k \in Attempts |-> 0]
  /\ stream = [k \in Attempts |-> "none"]
  /\ chan = [k \in Attempts |-> "none"]
  /\ timer = [k \in Attempts |-> "none"]
  /\ tap = [k \in Attempts |-> 0]
  /\ disc = [d \in DiscIds |-> IdleDisc]
  /\ decodes = {}
  /\ nMsg = 0
  /\ schedule = <<>>
  /\ cancelledPend = {}
  /\ cancelledGum = {}
  /\ clarity = WaitingToStart
  /\ messages = <<WelcomeMessage>>
  /\ curIn = [k \in Attempts |-> <<>>]
  /\ curOut = [k \in Attempts |-> <<>>]
  /\ sent = <<>>
  /\ arrived = <<>>
  /\ invoked = <<>>
  /\ emitted = <<>>
  /\ turns = <<>>
  /\ ticks = <<>>
  /\ deferred = [k \in Attempts |-> <<>>]
  /\ texts = <<>>
  /\ opened = {}
  /\ stopped = {}
  /\ ended = {}
  /\ dropped = {}

\* ------------------------------------------------- platform behaviour
\* AudioContext.close() on a context whose close() was already called
\* rejects with InvalidStateError; the await then throws inside disconnect().
CloseRejects(state) == state = "closed"

\* ------------------------------------------------------- disconnect()
FreeDisc == {d \in DiscIds : disc[d].pc = "idle"}
CanDisconnect == FreeDisc # {}
NextDisc == CHOOSE d \in FreeDisc : \A e \in FreeDisc : d <= e

PendingSetup(a, c) == {k \in Attempts : a[k].pc = "gum" \/ c[k] = "opening"}
InGum(a) == {k \in Attempts : a[k].pc = "gum"}

\* A disconnect() that returned leaves nothing behind; one that threw is
\* kept as a record of the error.
DoneDisc(rec) == IdleDisc
ThrewDisc(rec) == [IdleDisc EXCEPT !.pc = "threw"]

\* lines 89-92: release the channel reference and publish DISCONNECTED.
FinishDisconnect(d, rec) ==
  /\ sessionRef' = 0
  /\ connectionState' = "DISCONNECTED"
  /\ disc' = [disc EXCEPT ![d] = DoneDisc(rec)]
  /\ cancelledPend' = cancelledPend \cup rec.pend
  /\ cancelledGum' = cancelledGum \cup rec.gum

\* lines 79-92, entered with the state cs that setConnectionState last set.
CloseOutputPart(d, rec, cs) ==
  IF outputCtxRef # 0
  THEN /\ sourceNodes' = {}
       /\ stopped' = stopped \cup sourceNodes
       /\ UNCHANGED <<outputCtxRef, sessionRef, histVars>>
       /\ connectionState' = cs
       /\ IF CloseRejects(ctxOut[outputCtxRef])
          THEN /\ disc' = [disc EXCEPT ![d] = ThrewDisc(rec)]
               /\ UNCHANGED ctxOut
          ELSE /\ disc' = [disc EXCEPT ![d] = [rec EXCEPT !.pc = "awaitOut"]]
               /\ ctxOut' = [ctxOut EXCEPT ![outputCtxRef] = "closed"]
  ELSE /\ UNCHANGED <<sourceNodes, stopped, outputCtxRef, ctxOut>>
       /\ FinishDisconnect(d, rec)

\* lines 61-78 up to the first await, then on as far as the code runs
\* without suspending.  cs: the connection state at the call; pend, gum:
\* the attempts whose setup is pending at the call.
DisconnectCall(cs, fatal, pend, gum) ==
  LET d == IF CanDisconnect THEN NextDisc ELSE 1
      rec == [pc |-> "idle", fatal |-> fatal, pend |-> pend, gum |-> gum]
  IN
  /\ CanDisconnect
  /\ IF mediaStreamRef # 0
     THEN /\ stream' = [stream EXCEPT ![mediaStreamRef] = "stopped"]
          /\ mediaStreamRef' = 0
     ELSE UNCHANGED <<stream, mediaStreamRef>>
  /\ IF videoIntervalRef # 0
     THEN /\ timer' = [timer EXCEPT ![videoIntervalRef] = "cleared"]
          /\ videoIntervalRef' = 0
     ELSE UNCHANGED <<timer, videoIntervalRef>>
  /\ IF inputCtxRef # 0
     THEN /\ UNCHANGED <<inputCtxRef, outputCtxRef, ctxOut, sourceNodes, stopped,
                         sessionRef, histVars>>
          /\ connectionState' = cs
          /\ IF CloseRejects(ctxIn[inputCtxRef])
             THEN /\ disc' = [disc EXCEPT ![d] = ThrewDisc(rec)]
                  /\ UNCHANGED <<ctxIn, closingIn>>
             ELSE /\ disc' = [disc EXCEPT ![d] = [rec EXCEPT !.pc = "awaitIn"]]
                  /\ ctxIn' = [ctxIn EXCEPT ![inputCtxRef] = "closed"]
                  /\ closingIn' = [closingIn EXCEPT ![d] = inputCtxRef]
     ELSE /\ UNCHANGED <<inputCtxRef, ctxIn, closingIn>>
          /\ CloseOutputPart(d, rec, cs)

\* lines 76-78 resumed: the input context's close() has settled.
DisconnectResumeIn(d) ==
  /\ disc[d].pc = "awaitIn"
  /\ inputCtxRef' = 0
  /\ closingIn' = [closingIn EXCEPT ![d] = 0]
  /\ CloseOutputPart(d, disc[d], connectionState)
  /\ UNCHANGED <<mediaStreamRef, audioProcessorRef, videoIntervalRef,
                 ctxIn, stream, chan, timer, tap, nConnect, att,
                 nextStart, decodes, nMsg, schedule, outTime, ended, dropped, uiVars, appVars,
                 routerVars>>

\* lines 85-92 resumed: the output context's close() has settled.
DisconnectResumeOut(d) ==
  /\ disc[d].pc = "awaitOut"
  /\ outputCtxRef' = 0
  /\ FinishDisconnect(d, disc[d])
  /\ UNCHANGED <<inputCtxRef, mediaStreamRef, audioProcessorRef,
                 videoIntervalRef, resVars, nConnect, att, playVars, uiVars, appVars, routerVars>>

\* ---------------------------------------------------------- connect()
\* A connect() that has lost its credential guard.
HasCredentialUnchecked(key) == TRUE

\* line 96: if (!apiKey) return
HasCredential(key) == key

\* lines 95-123: connect() up to the await of getUserMedia.  The closure
\* keeps the isAudioOnly of the render that created it.  The caller
\* (toggleSession) sets the clarity and the chat.
ConnectCall(limit) ==
  /\ nConnect < limit
  /\ nConnect' = nConnect + 1
  /\ IF ~HasCredential(apiKey)
     THEN UNCHANGED <<connectionState, att, disc, refVars, resVars, playVars,
                      uiVars, routerVars, histVars>>
     ELSE LET k == nConnect + 1 IN
          /\ connectionState' = "CONNECTING"
          /\ inputCtxRef' = k
          /\ outputCtxRef' = k
          /\ ctxIn' = [ctxIn EXCEPT ![k] = "running"]
          /\ ctxOut' = [ctxOut EXCEPT ![k] = "running"]
          /\ nextStart' = 0
          /\ att' = [att EXCEPT ![k] = [pc |-> "gum", audioOnly |-> isAudioOnly]]
          /\ UNCHANGED <<mediaStreamRef, audioProcessorRef, sessionRef,
                         videoIntervalRef, stream, chan, timer, tap, closingIn, disc,
                         sourceNodes, stopped, decodes, nMsg, schedule, outTime, ended, dropped,
                         uiVars, routerVars, histVars>>

\* App.tsx 138-140: finishLesson resets the clarity and restores the
\* welcome message.
ResetUi ==
  /\ clarity' = LessonFinished
  /\ messages' = <<WelcomeMessage>>

\* App.tsx 92, 100: transcriptText.trim().length > 0 && API_KEY.  Every chat
\* entry contributes its role and a colon, so the transcript is non-empty
\* when the chat is.
WantsSummary == messages # <<>> /\ apiKey

\* App.tsx 89-141, finishLesson, up to its await: disconnect() is called and
\* not awaited (line 96); with a transcript and a credential the handler
\* then suspends in generateContent (line 103), otherwise it runs on to the
\* reset of the UI state.  The saved lessons are left out.
FinishLesson ==
  /\ DisconnectCall(connectionState, FALSE, PendingSetup(att, chan), InGum(att))
  /\ IF WantsSummary
     THEN /\ summaries' = summaries + 1
          /\ UNCHANGED appVars
     ELSE /\ ResetUi
          /\ UNCHANGED summaries
  /\ UNCHANGED <<audioProcessorRef, chan, tap, nConnect, att, nextStart,
                 decodes, nMsg, schedule, outTime, ended, dropped, apiKey,
                 isAudioOnly, isAudioOnlyRef, mounted, routerVars>>

\* lines 300-305: <App/> is unmounted.  React clears the element refs
\* (App.tsx 347, 353) and runs the cleanup of the hook's effect, which
\* calls disconnect(); the handlers of the UI are gone from then on.
Unmount ==
  /\ mounted
  /\ mounted' = FALSE
  /\ DisconnectCall(connectionState, FALSE, PendingSetup(att, chan), InGum(att))
  /\ UNCHANGED <<audioProcessorRef, chan, tap, nConnect, att, nextStart,
                 decodes, nMsg, schedule, outTime, ended, dropped, apiKey,
                 isAudioOnly, isAudioOnlyRef, summaries, appVars, routerVars>>

\* lines 315-323: disconnect() as the hook returns it, called by itself by
\* the component that uses the hook, in any connection state.  It touches
\* nothing of the App's state.
Disconnect ==
  /\ mounted
  /\ DisconnectCall(connectionState, FALSE, PendingSetup(att, chan), InGum(att))
  /\ UNCHANGED <<audioProcessorRef, chan, tap, nConnect, att, nextStart,
                 decodes, nMsg, schedule, outTime, ended, dropped, uiVars,
                 appVars, routerVars>>

\* App.tsx 103-141: generateContent has resolved, or has rejected and the
\* catch has run; finishLesson goes on to the reset of the UI state.
SummaryDone ==
  /\ summaries > 0
  /\ summaries' = summaries - 1
  /\ ResetUi
  /\ UNCHANGED <<apiKey, isAudioOnly, isAudioOnlyRef, mounted, connectionState,
                 nConnect, att, disc, refVars, resVars, playVars, histVars,
                 routerVars>>

\* App.tsx toggleSession: stop when CONNECTED or CONNECTING; otherwise
\* clear the chat, reset the clarity and start.
ToggleSession(limit) ==
  /\ mounted
  /\ IF connectionState \in {"CONNECTED", "CONNECTING"}
     THEN FinishLesson
     ELSE /\ messages' = <<>>
          /\ clarity' = StartingLesson
          /\ ConnectCall(limit)

\* lines 123-291: getUserMedia resolved; the stream is stored, the channel
\* is requested (ai.live.connect is not awaited) and its promise stored.
GumResolve(k) ==
  /\ att[k].pc = "gum"
  /\ att' = [att EXCEPT ![k].pc = "setup"]
  /\ stream' = [stream EXCEPT ![k] = "live"]
  /\ mediaStreamRef' = k
  /\ curIn' = [curIn EXCEPT ![k] = <<>>]
  /\ curOut' = [curOut EXCEPT ![k] = <<>>]
  /\ chan' = [chan EXCEPT ![k] = "opening"]
  /\ sessionRef' = k
  /\ UNCHANGED <<connectionState, nConnect, disc, inputCtxRef, outputCtxRef,
                 audioProcessorRef, videoIntervalRef, ctxIn, ctxOut, timer,
                 tap, closingIn, playVars, uiVars, appVars, sent, arrived, invoked,
                 emitted, turns, ticks, deferred, texts, opened, histVars>>

\* lines 123, 293-297: getUserMedia rejected; catch sets ERROR and calls
\* disconnect(), not awaited.
GumReject(k) ==
  /\ att[k].pc = "gum"
  /\ att' = [att EXCEPT ![k].pc = "failed"]
  /\ DisconnectCall("ERROR", TRUE, PendingSetup(att', chan), InGum(att'))
  /\ UNCHANGED <<audioProcessorRef, chan, tap, nConnect, nextStart,
                 decodes, nMsg, schedule, outTime, ended, dropped, uiVars, appVars,
                 routerVars>>

\* A channel-open callback that starts the frame timer in every session.
WantsVideoAlways(captured, elements) == TRUE

\* line 197: !isAudioOnly && canvasRef.current && videoRef.current.  The
\* closure keeps the isAudioOnly of its connect(); the two elements are
\* rendered by <App/> whenever it is mounted (App.tsx 347, 353).
WantsVideo(captured, elements) == ~captured /\ elements

\* lines 171-216: the channel-open callback.  sessionPromise resolves when
\* the channel has opened, and the callbacks queued on it while it was
\* pending (sendTextMessage, lines 309-311) run then, in the order queued.
OnOpen(k) ==
  /\ chan[k] = "opening"
  /\ chan' = [chan EXCEPT ![k] = "open"]
  /\ connectionState' = "CONNECTED"
  /\ IF inputCtxRef = 0
     THEN UNCHANGED <<tap, audioProcessorRef, timer, videoIntervalRef>>
     ELSE /\ tap' = [tap EXCEPT ![k] = inputCtxRef]
          /\ audioProcessorRef' = k
          /\ IF WantsVideo(att[k].audioOnly, mounted)
             THEN /\ timer' = [timer EXCEPT ![k] = "active"]
                  /\ videoIntervalRef' = k
             ELSE UNCHANGED <<timer, videoIntervalRef>>
  /\ sent' = sent \o deferred[k]
  /\ deferred' = [deferred EXCEPT ![k] = <<>>]
  /\ opened' = opened \cup {k}
  /\ UNCHANGED <<nConnect, att, disc, inputCtxRef, outputCtxRef,
                 mediaStreamRef, sessionRef, ctxIn, ctxOut, stream, closingIn,
                 playVars, uiVars, appVars, curIn, curOut, arrived, invoked,
                 emitted, turns, ticks, texts, histVars>>

\* lines 279-282: the channel-close callback.
OnClose(k) ==
  /\ chan[k] \in {"opening", "open", "errored"}
  /\ chan' = [chan EXCEPT ![k] = "closed"]
  /\ DisconnectCall(connectionState, TRUE, PendingSetup(att, chan'), InGum(att))
  /\ UNCHANGED <<audioProcessorRef, tap, nConnect, att, nextStart,
                 decodes, nMsg, schedule, outTime, ended, dropped, uiVars, appVars,
                 routerVars>>

\* lines 283-287: the channel-error callback; the close callback follows.
OnError(k) ==
  /\ chan[k] \in {"opening", "open"}
  /\ chan' = [chan EXCEPT ![k] = "errored"]
  /\ DisconnectCall("ERROR", TRUE, PendingSetup(att, chan'), InGum(att))
  /\ UNCHANGED <<audioProcessorRef, tap, nConnect, att, nextStart,
                 decodes, nMsg, schedule, outTime, ended, dropped, uiVars, appVars,
                 routerVars>>

\* line 38 and App.tsx 75-77, 227: the audio-only toggle sets the hook's
\* state; the ref follows when the effect runs.
SetIsAudioOnly(b) ==
  /\ mounted
  /\ isAudioOnly # b
  /\ isAudioOnly' = b
  /\ UNCHANGED <<apiKey, isAudioOnlyRef, summaries, mounted, connectionState, nConnect,
                 att, disc, refVars, resVars, playVars, histVars, appVars,
                 routerVars>>

\* lines 42-44: the effect that copies the state into the ref.  It runs
\* after the render the state change caused, at once or in a later task,
\* as the React build schedules passive effects; React does run it while
\* the component stays mounted, which the specifications with the toggle
\* state as weak fairness of this action.
SyncIsAudioOnlyRef ==
  /\ mounted
  /\ isAudioOnlyRef # isAudioOnly
  /\ isAudioOnlyRef' = isAudioOnly
  /\ UNCHANGED <<apiKey, isAudioOnly, summaries, mounted, connectionState, nConnect,
                 att, disc, refVars, resVars, playVars, histVars, appVars,
                 routerVars>>

\* ------------------------------------------------------ inbound frames
\* services/audioUtils decodeAudioData, as the specification describes it
\* (4.2, 5): an asynchronous operation with no ordering dependency on other
\* chunks, so any pending decode may settle next; a well-formed payload
\* yields a buffer with a duration, a malformed one a decode error.
AudioPayloads ==
  {[ok |-> TRUE, dur |-> n] : n \in 1..MaxDur} \cup {[ok |-> FALSE, dur |-> 0]}
DecodeSettles(d) == d \in decodes
DecodeSucceeds(d) == d.ok

\* Transcription text is a sequence of characters.
Chars == {"a", " "}
Fragments == {<<c>> : c \in Chars}

\* The arguments a function call carries; language is optional
\* (App.tsx 507-511).
Updates ==
  { [score |-> 42, reasoning |-> "too much jargon", language |-> "English"],
    [score |-> 80, reasoning |-> "clear"] }
NoArgs == [score |-> 0, reasoning |-> ""]

FunctionCalls ==
  {[name |-> "updateClarity", id |-> i, args |-> u] : i \in Ids, u \in Updates}
    \cup {[name |-> "other", id |-> 1, args |-> NoArgs]}

\* A LiveServerMessage: msg.toolCall.functionCalls, the inline audio data of
\* msg.serverContent.modelTurn, the two transcription texts and turnComplete.
NoFrame ==
  [calls |-> <<>>, hasAudio |-> FALSE, audio |-> [ok |-> FALSE, dur |-> 0],
   inText |-> <<>>, outText |-> <<>>, turn |-> FALSE]

\* Frames that carry audio only.
AudioFrames ==
  {[NoFrame EXCEPT !.hasAudio = TRUE, !.audio = p] : p \in AudioPayloads}

\* Frames that carry function calls only.
ToolFrames ==
  {[NoFrame EXCEPT !.calls = cs] :
     cs \in UNION {[1..n -> FunctionCalls] : n \in 1..MaxCalls}}

\* Frames that carry transcription of one direction or a turn-complete
\* marker, with or without audio.
TextFrames ==
  {[NoFrame EXCEPT !.hasAudio = p.has, !.audio = p.audio,
                   !.inText = t[1], !.outText = t[2], !.turn = m] :
     p \in {[has |-> FALSE, audio |-> NoFrame.audio],
            [has |-> TRUE, audio |-> [ok |-> TRUE, dur |-> 1]]},
     t \in {<<<<>>, <<>>>>} \cup {<<x, <<>>>> : x \in Fragments}
                           \cup {<<<<>>, x>> : x \in Fragments},
     m \in BOOLEAN} \ {NoFrame}

\* Frames whose audio payload does not decode, with a fragment of the
\* user's transcription, a turn-complete marker, or both.
BrokenFrames ==
  {[NoFrame EXCEPT !.hasAudio = TRUE, !.inText = x, !.turn = m] :
     x \in {<<>>, <<"a">>}, m \in BOOLEAN} \ {[NoFrame EXCEPT !.hasAudio = TRUE]}

\* A router that treats every function call as a clarity update.
IsAnyCall(fc) == TRUE

\* line 221: fc.name === 'updateClarity'
IsClarityCall(fc) == fc.name = "updateClarity"

\* A handler that merges an update into the state it finds.
PublishMerged(prev, update) ==
  [f \in DOMAIN prev \cup DOMAIN update |->
     IF f \in DOMAIN update THEN update[f] ELSE prev[f]]

\* App.tsx 55-57: handleClarityUpdate, setClarity(update).
Publish(prev, update) == update

\* lines 220-224: the loop over the function calls, as far as the clarity.
RECURSIVE PublishAll(_, _)
PublishAll(c, calls) ==
  IF calls = <<>> THEN c
  ELSE PublishAll(IF IsClarityCall(Head(calls))
                  THEN Publish(c, Head(calls).args) ELSE c,
                  Tail(calls))

\* lines 226-232: the tool response sent for one function call on channel k.
AckOf(k, fc) ==
  [ch |-> k, kind |-> "toolResponse", id |-> fc.id, name |-> fc.name,
   result |-> "ok"]

\* A router that answers a frame once, for its last clarity call.
RECURSIVE AcksLastOnly(_, _)
AcksLastOnly(k, calls) ==
  IF calls = <<>> THEN <<>>
  ELSE IF AcksLastOnly(k, Tail(calls)) # <<>>
       THEN AcksLastOnly(k, Tail(calls))
       ELSE IF IsClarityCall(Head(calls))
            THEN <<AckOf(k, Head(calls))>> ELSE <<>>

\* lines 220-233: the responses the loop queues on sessionPromise, which is
\* resolved while frames arrive; they are sent, in order, when the
\* synchronous part of the handler has run.
RECURSIVE Acks(_, _)
Acks(k, calls) ==
  IF calls = <<>> THEN <<>>
  ELSE (IF IsClarityCall(Head(calls)) THEN <<AckOf(k, Head(calls))>> ELSE <<>>)
         \o Acks(k, Tail(calls))

\* String.prototype.trim: leading and trailing white space removed.
RECURSIVE TrimStart(_)
TrimStart(s) ==
  IF s # <<>> /\ Head(s) = " " THEN TrimStart(Tail(s)) ELSE s
RECURSIVE TrimEnd(_)
TrimEnd(s) ==
  IF s # <<>> /\ s[Len(s)] = " " THEN TrimEnd(SubSeq(s, 1, Len(s) - 1)) ELSE s
Trim(s) == TrimEnd(TrimStart(s))

\* A flush that does not look at the accumulator.
FlushesAlways(acc) == TRUE

\* lines 269 and 273: if (accumulator.trim())
Flushes(acc) == Trim(acc) # <<>>

\* lines 260-277: the transcription part of the handler of frame s of
\* channel k: append the fragments, then on turnComplete hand each
\* accumulator that passes the trim test to onTranscription and reset it.
\* App.tsx 59-61: handleTranscription appends the event to the chat.
Transcribe(k, s, inText, outText, turn) ==
  LET i1 == curIn[k] \o inText
      o1 == curOut[k] \o outText
      fi == turn /\ Flushes(i1)
      fo == turn /\ Flushes(o1)
      evs == (IF fi THEN <<[role |-> "user", text |-> i1]>> ELSE <<>>)
               \o (IF fo THEN <<[role |-> "model", text |-> o1]>> ELSE <<>>)
      i2 == IF fi THEN <<>> ELSE i1
      o2 == IF fo THEN <<>> ELSE o1
  IN
  /\ curIn' = [curIn EXCEPT ![k] = i2]
  /\ curOut' = [curOut EXCEPT ![k] = o2]
  /\ messages' = messages \o evs
  /\ emitted' = emitted \o
       [n \in 1..Len(evs) |->
          [ch |-> k, at |-> s, role |-> evs[n].role, text |-> evs[n].text]]
  /\ turns' = IF turn
              THEN Append(turns, [ch |-> k, at |-> s, user |-> i1, model |-> o1,
                                  userAfter |-> i2, modelAfter |-> o2,
                                  events |-> evs])
              ELSE turns

\* lines 217-241: the message callback up to the await of decodeAudioData,
\* or to its end when there is nothing to decode; the output context is
\* checked and captured before the await.
OnMessage(k, f) ==
  /\ chan[k] = "open"
  /\ nMsg < MaxMsgs
  /\ nMsg' = nMsg + 1
  /\ arrived' = Append(arrived, [ch |-> k, inText |-> f.inText,
                                 outText |-> f.outText, turn |-> f.turn,
                                 hasAudio |-> f.hasAudio])
  /\ invoked' = invoked \o
       [n \in 1..Len(f.calls) |->
          [ch |-> k, gen |-> nConnect, name |-> f.calls[n].name,
           id |-> f.calls[n].id, args |-> f.calls[n].args]]
  /\ clarity' = PublishAll(clarity, f.calls)
  /\ sent' = sent \o Acks(k, f.calls)
  /\ IF f.hasAudio /\ outputCtxRef # 0
     THEN /\ decodes' = decodes \cup
                 {[seq |-> nMsg + 1, ch |-> k, ctx |-> outputCtxRef,
                   ok |-> f.audio.ok, dur |-> f.audio.dur,
                   inText |-> f.inText, outText |-> f.outText,
                   turn |-> f.turn]}
          /\ UNCHANGED <<curIn, curOut, messages, emitted, turns>>
     ELSE /\ UNCHANGED decodes
          /\ Transcribe(k, nMsg + 1, f.inText, f.outText, f.turn)
  /\ UNCHANGED <<connectionState, nConnect, att, disc, refVars, resVars,
                 nextStart, sourceNodes, schedule, outTime, stopped, ended,
                 dropped, uiVars, histVars, ticks, deferred, texts, opened>>

\* A scheduler that starts every buffer at the clock reading.
ScheduleAtClock(cursor, now) == now

\* lines 248-250: Math.max(nextStartTimeRef.current, ctx.currentTime)
ScheduleAt(cursor, now) == Max(cursor, now)

\* A scheduler whose cursor stays at the start of the buffer.
AdvanceNone(startAt, dur) == startAt

\* line 253: nextStartTimeRef.current += buffer.duration
Advance(startAt, dur) == startAt + dur

\* lines 243-277: the decode resolved; the buffer is scheduled on the
\* captured context, whatever has happened to it meanwhile, and the
\* handler goes on to the transcription part.
DecodeDone(d) ==
  /\ DecodeSettles(d)
  /\ DecodeSucceeds(d)
  /\ LET startAt == ScheduleAt(nextStart, outTime[d.ctx]) IN
     /\ nextStart' = Advance(startAt, d.dur)
     /\ schedule' = Append(schedule,
                       [seq |-> d.seq, ch |-> d.ch, at |-> startAt,
                        dur |-> d.dur, cursor |-> nextStart,
                        now |-> outTime[d.ctx], gen |-> nConnect])
  /\ sourceNodes' = sourceNodes \cup {d.seq}
  /\ decodes' = decodes \ {d}
  /\ Transcribe(d.ch, d.seq, d.inText, d.outText, d.turn)
  /\ UNCHANGED <<connectionState, nConnect, att, disc, refVars, resVars,
                 nMsg, outTime, stopped, ended, dropped, uiVars, histVars,
                 clarity, sent, arrived, invoked, ticks, deferred, texts,
                 opened>>

\* A handler that starts the playback cursor afresh after a decode error.
DecodeFailResets(d) ==
  /\ DecodeSettles(d)
  /\ ~DecodeSucceeds(d)
  /\ decodes' = decodes \ {d}
  /\ dropped' = dropped \cup {d.seq}
  /\ nextStart' = 0
  /\ UNCHANGED <<connectionState, nConnect, att, disc, refVars, resVars,
                 sourceNodes, nMsg, schedule, outTime, stopped, ended,
                 uiVars, histVars, appVars, routerVars>>

\* line 241: the decode rejected; the await throws and the handler ends.
DecodeFail(d) ==
  /\ DecodeSettles(d)
  /\ ~DecodeSucceeds(d)
  /\ decodes' = decodes \ {d}
  /\ dropped' = dropped \cup {d.seq}
  /\ UNCHANGED <<connectionState, nConnect, att, disc, refVars, resVars,
                 nextStart, sourceNodes, nMsg, schedule, outTime, stopped,
                 ended, uiVars, histVars, appVars, routerVars>>

\* The handles source.start() was called on.
Started == {schedule[n].seq : n \in 1..Len(schedule)}

\* line 256: source.onended removes the handle from the active set.  The
\* ended event fires once per started source, when its buffer has played
\* or after stop(), whether or not the set still holds the handle.
OnEnded(h) ==
  /\ h \in Started
  /\ h \notin ended
  /\ ended' = ended \cup {h}
  /\ sourceNodes' = sourceNodes \ {h}
  /\ UNCHANGED <<connectionState, nConnect, att, disc, refVars, resVars,
                 nextStart, decodes, nMsg, schedule, outTime, stopped,
                 dropped, uiVars, histVars, appVars, routerVars>>

\* line 248: ctx.currentTime of a running output context advances.
AdvanceClock(k) ==
  /\ ctxOut[k] = "running"
  /\ outTime[k] < MaxClock
  /\ outTime' = [outTime EXCEPT ![k] = @ + 1]
  /\ UNCHANGED <<connectionState, nConnect, att, disc, refVars, resVars,
                 nextStart, sourceNodes, decodes, nMsg, schedule, stopped,
                 ended, dropped, uiVars, histVars, appVars, routerVars>>

\* ------------------------------------------------------------ capture
\* lines 188-189: the frame captured by callback n, encoded, as a media
\* chunk; its content is left out.
AudioChunk(k, n) == [ch |-> k, kind |-> "audio", n |-> n]

\* lines 204-210: the canvas snapshot of callback n as a JPEG chunk.
ImageChunk(k, n) == [ch |-> k, kind |-> "image", n |-> n]

\* A sink that takes the newest chunk first.
DeliverFirst(queue, chunk) == <<chunk>> \o queue

\* lines 189, 211, 309: sessionPromise.then(session =>
\* session.sendRealtimeInput(...)).  The callbacks queued on one promise run
\* in the order they were queued, so the chunk goes behind those before it.
Deliver(queue, chunk) == Append(queue, chunk)

\* The processor's callback fires while the context it was created on runs,
\* and until a close() of that context has settled.
TapRuns(k) ==
  \/ ctxIn[tap[k]] = "running"
  \/ \E d \in DiscIds : closingIn[d] = tap[k]

\* lines 185-190: the audio tap's callback.
TapTick(k) ==
  /\ tap[k] # 0
  /\ TapRuns(k)
  /\ Len(ticks) < MaxTicks
  /\ ticks' = Append(ticks, [src |-> "tap", ch |-> k,
                             audioOnly |-> isAudioOnlyRef, ready |-> TRUE,
                             state |-> connectionState])
  /\ sent' = IF inputCtxRef = 0 THEN sent
             ELSE Deliver(sent, AudioChunk(k, Len(ticks) + 1))
  /\ UNCHANGED <<connectionState, nConnect, att, disc, refVars, resVars,
                 playVars, uiVars, histVars, appVars, curIn, curOut, arrived,
                 invoked, emitted, turns, deferred, texts, opened>>

\* A timer that looks at the mode its session was started in.
FrameMutedAtConnect(live, captured) == captured

\* A timer that does not look at the toggle.
FrameMutedNever(live, captured) == FALSE

\* line 201: if (isAudioOnlyRef.current) return
FrameMuted(live, captured) == live

\* line 204: videoEl.readyState === videoEl.HAVE_ENOUGH_DATA
VideoReady(ready) == ready

\* lines 199-214: the frame timer's callback; ready: the video element has
\* enough data.  With <App/> unmounted videoRef.current is null and the
\* callback, when it gets past line 201, throws at line 204.
TimerTick(k, ready) ==
  /\ timer[k] = "active"
  /\ ready => mounted
  /\ Len(ticks) < MaxTicks
  /\ ticks' = Append(ticks, [src |-> "timer", ch |-> k,
                             audioOnly |-> isAudioOnlyRef, ready |-> ready,
                             state |-> connectionState])
  /\ sent' = IF ~FrameMuted(isAudioOnlyRef, att[k].audioOnly)
                  /\ VideoReady(ready)
             THEN Deliver(sent, ImageChunk(k, Len(ticks) + 1))
             ELSE sent
  /\ UNCHANGED <<connectionState, nConnect, att, disc, refVars, resVars,
                 playVars, uiVars, histVars, appVars, curIn, curOut, arrived,
                 invoked, emitted, turns, deferred, texts, opened>>

\* line 310: the n-th text message as an outbound chunk; its content is
\* left out.
TextChunk(k, n) == [ch |-> k, kind |-> "text", n |-> n]

\* A disconnect() is suspended at one of its awaits.
Suspended == \E d \in DiscIds : disc[d].pc \in {"awaitIn", "awaitOut"}

\* line 308: if (sessionRef.current)
HasSession(ref) == ref # 0

\* lines 307-313: sendTextMessage.  With no session reference nothing
\* happens.  Otherwise the send is queued on the promise the reference
\* holds: it runs at once when the promise has resolved, and waits for the
\* resolution while the channel is opening.
SendTextMessage ==
  /\ Len(texts) < MaxTexts
  /\ texts' = Append(texts, [state |-> connectionState, ref |-> sessionRef,
                             tearing |-> Suspended])
  /\ IF HasSession(sessionRef)
     THEN LET k == sessionRef
              chunk == TextChunk(k, Len(texts) + 1)
          IN
          IF k \in opened
          THEN /\ sent' = Deliver(sent, chunk)
               /\ UNCHANGED deferred
          ELSE /\ deferred' = [deferred EXCEPT ![k] = Deliver(@, chunk)]
               /\ UNCHANGED sent
     ELSE UNCHANGED <<sent, deferred>>

\* App.tsx 151-154 and 414-415: handleImStuck, behind a button that is
\* enabled while the state is CONNECTED; it sends the request for a hint
\* and adds its entry to the chat.
HandleImStuck ==
  /\ mounted
  /\ connectionState = "CONNECTED"
  /\ SendTextMessage
  /\ messages' = Append(messages, StuckMessage)
  /\ UNCHANGED <<connectionState, nConnect, att, disc, refVars, resVars,
                 playVars, uiVars, histVars, clarity, curIn, curOut, arrived,
                 invoked, emitted, turns, ticks, opened>>

\* lines 315-323: the hook hands sendTextMessage to the component that uses
\* it, which can call it in any connection state.
SendTextCall ==
  /\ mounted
  /\ SendTextMessage
  /\ UNCHANGED <<connectionState, nConnect, att, disc, refVars, resVars,
                 playVars, uiVars, histVars, appVars, curIn, curOut, arrived,
                 invoked, emitted, turns, ticks, opened>>

\* ------------------------------------------------------ specification
\* The session lifecycle: connect attempts, teardowns and channel callbacks.
Lifecycle(limit) ==
  \/ ToggleSession(limit)
  \/ \E k \in Attempts : GumResolve(k)
  \/ \E k \in Attempts : GumReject(k)
  \/ \E k \in Attempts : OnOpen(k)
  \/ \E k \in Attempts : OnClose(k)
  \/ \E k \in Attempts : OnError(k)
  \/ \E d \in DiscIds : DisconnectResumeIn(d)
  \/ \E d \in DiscIds : DisconnectResumeOut(d)
  \/ SummaryDone
  \/ Disconnect
  \/ Unmount

\* The audio-only toggle and the effect that follows it.
Toggle ==
  \/ \E b \in BOOLEAN : SetIsAudioOnly(b)
  \/ SyncIsAudioOnlyRef

\* The inbound audio path of a session.
Playback ==
  \/ \E k \in Attempts, f \in AudioFrames : OnMessage(k, f)
  \/ \E d \in decodes : DecodeDone(d)
  \/ \E d \in decodes : DecodeFail(d)
  \/ \E h \in Handles : OnEnded(h)
  \/ \E k \in Attempts : AdvanceClock(k)

\* The transcription path of a session.
Transcript ==
  \/ \E k \in Attempts, f \in TextFrames : OnMessage(k, f)
  \/ \E d \in decodes : DecodeDone(d)

\* The inbound path of a session whose audio payloads do not decode.
DecodeError ==
  \/ \E k \in Attempts, f \in BrokenFrames : OnMessage(k, f)
  \/ \E d \in decodes : DecodeFail(d)

\* The capture pipeline of a session.
Capture ==
  \/ \E k \in Attempts : TapTick(k)
  \/ \E k \in Attempts, ready \in BOOLEAN : TimerTick(k, ready)

Next == Lifecycle(MaxConnects)

Spec == Init /\ [][Next]_vars

\* The lifecycle of a manager that is asked to connect MaxSessions times.
NextSingle == Lifecycle(MaxSessions) \/ Toggle

SpecSingle == Init /\ [][NextSingle]_vars /\ WF_vars(SyncIsAudioOnlyRef)

NextPlayback == Lifecycle(MaxSessions) \/ Playback

SpecPlayback == Init /\ [][NextPlayback]_vars

\* A session that receives function calls.
NextTools ==
  \/ Lifecycle(MaxSessions)
  \/ \E k \in Attempts, f \in ToolFrames : OnMessage(k, f)

SpecTools == Init /\ [][NextTools]_vars

\* A session that receives transcription.
NextTranscript == Lifecycle(MaxSessions) \/ Transcript

SpecTranscript == Init /\ [][NextTranscript]_vars

\* A session that receives audio that does not decode.
NextDecodeError == Lifecycle(MaxSessions) \/ DecodeError

SpecDecodeError == Init /\ [][NextDecodeError]_vars

\* A manager whose user sends text messages.
NextText == Lifecycle(MaxSessions) \/ HandleImStuck \/ SendTextCall

SpecText == Init /\ [][NextText]_vars

\* A session whose tap and frame timer fire.
NextCapture == Lifecycle(MaxSessions) \/ Toggle \/ Capture

SpecCapture == Init /\ [][NextCapture]_vars /\ WF_vars(SyncIsAudioOnlyRef)

\* ------------------------------------------------------------ claims
\* The resources of attempt k that have been created and not yet released.
HoldsStream(k) == stream[k] = "live"
HoldsContexts(k) == ctxIn[k] = "running" \/ ctxOut[k] = "running"
HoldsTimer(k) == timer[k] = "active"
HoldsChannel(k) == sessionRef = k /\ chan[k] \in {"opening", "open"}
LiveSession(k) ==
  HoldsStream(k) \/ HoldsContexts(k) \/ HoldsTimer(k) \/ HoldsChannel(k)

\* C1: single-session invariant.  Whatever connect() and disconnect() calls
\* toggleSession issues and however their asynchronous completions
\* interleave, at most one attempt has resources created and not released.
C1_SingleSession == Cardinality({k \in Attempts : LiveSession(k)}) <= 1

\* C2: a disconnect() invoked while attempt k's setup was still pending has
\* completed, and connect() has not been called since: the connection
\* state is DISCONNECTED and stays so while the pending steps finish.
C2_EarlyDisconnectStays ==
  \A k \in cancelledPend : nConnect = k => connectionState = "DISCONNECTED"

\* C3: a disconnect() ran while attempt k was suspended in getUserMedia;
\* once the acquisition and the channel open have completed, the manager
\* holds no capture stream, channel reference, audio tap or frame timer of k.
C3_NoResurrection ==
  \A k \in cancelledGum :
    chan[k] = "open" =>
      /\ stream[k] # "live"
      /\ sessionRef # k
      /\ tap[k] = 0
      /\ timer[k] # "active"

\* C4: a decode that completes after teardown closed its output context
\* schedules nothing: no source is started, nextStart does not advance and
\* no handle joins the active set.
C4_NoPlaybackAfterClose ==
  [][\A d \in decodes :
       (d \notin decodes' /\ ctxOut[d.ctx] = "closed") =>
         /\ nextStart' = nextStart
         /\ schedule' = schedule
         /\ d.seq \notin sourceNodes']_vars

\* A disconnect() invocation that was suspended returns in this step.
Returns(d) == disc[d].pc \in {"awaitIn", "awaitOut"} /\ disc'[d].pc = "idle"
\* A disconnect() invocation raises in this step.
Raises(d) == disc[d].pc # "threw" /\ disc'[d].pc = "threw"

RefsCleared ==
  /\ mediaStreamRef = 0
  /\ videoIntervalRef = 0
  /\ inputCtxRef = 0
  /\ outputCtxRef = 0
  /\ sessionRef = 0
  /\ sourceNodes = {}

\* C5: disconnect() is idempotent.  No invocation raises, also not one
\* issued while another is suspended in a context close, and an invocation
\* that returns leaves the state DISCONNECTED with every reference cleared.
C5_DisconnectIdempotent ==
  [][\A d \in DiscIds :
       /\ ~Raises(d)
       /\ Returns(d) => (connectionState' = "DISCONNECTED" /\ RefsCleared')]_vars

\* The step is a setup exception (catch) or a remote error callback.
FatalErrorStep ==
  \E k \in Attempts :
    \/ att[k].pc # "failed" /\ att'[k].pc = "failed"
    \/ chan[k] # "errored" /\ chan'[k] = "errored"

\* C6: Error is terminal.  A setup exception or remote error callback
\* leaves the state ERROR, and ERROR is left only by a new connect().
C6_ErrorTerminal ==
  [][/\ FatalErrorStep => connectionState' = "ERROR"
     /\ connectionState = "ERROR" =>
          connectionState' \in {"ERROR", "CONNECTING"}]_vars

\* The step is a remote close callback.
RemoteCloseStep ==
  \E k \in Attempts : chan[k] # "closed" /\ chan'[k] = "closed"

\* The teardown started by a fatal path completes in this step: a suspended
\* one returns, or the fatal path's own call ran through without suspending.
FatalTeardownCompletes ==
  \/ \E d \in DiscIds : disc[d].fatal /\ Returns(d)
  \/ (FatalErrorStep \/ RemoteCloseStep) /\ disc' = disc

TornDown ==
  /\ \A k \in Attempts :
       /\ stream[k] # "live"
       /\ timer[k] # "active"
       /\ ctxIn[k] # "running"
       /\ ctxOut[k] # "running"
  /\ sourceNodes = {}
  /\ sessionRef = 0

\* C7: once the teardown of a fatal path has completed, the capture tracks
\* are stopped, the frame timer is cleared, both audio contexts are closed,
\* the active playback set is empty and the channel reference is dropped,
\* and the step starts no new connect attempt.
C7_FatalPathTeardown ==
  [][FatalTeardownCompletes =>
       /\ TornDown'
       /\ nConnect' = nConnect
       /\ InGum(att') \subseteq InGum(att)]_vars

\* C8: connect() with no credential configured fails immediately: the
\* connection state is unchanged and no audio context, capture stream,
\* channel or connect attempt is created.
C8_NoCredentialNoEffect ==
  [][(nConnect' = nConnect + 1 /\ ~apiKey) =>
       UNCHANGED <<connectionState, att, refVars, resVars, nextStart>>]_vars

\* C8 witness: connect() has been called with no credential.
C8_Witness == ~apiKey /\ nConnect > 0 /\ connectionState = "DISCONNECTED"

\* The channel-open callback of attempt k runs in this step and starts the
\* audio tap and, when video was requested, the frame timer.
OpensAndStartsCapture(k) ==
  /\ chan[k] = "opening"
  /\ chan'[k] = "open"
  /\ tap'[k] # 0
  /\ ~att[k].audioOnly => timer'[k] = "active"

\* C9: the state becomes CONNECTED only when the channel-open callback
\* fires while the state is CONNECTING, and that step starts the audio tap
\* and, when video was requested, the frame timer.
C9_ConnectedOnlyFromConnecting ==
  [][(connectionState # "CONNECTED" /\ connectionState' = "CONNECTED") =>
       /\ connectionState = "CONNECTING"
       /\ \E k \in Attempts : OpensAndStartsCapture(k)]_vars

\* C10: of two audio frames of one channel, the one that arrived first is
\* given its start time first, and so the earlier one, in whatever order
\* their decodes complete.
C10_ArrivalOrderScheduling ==
  \A i, j \in 1..Len(schedule) :
    (schedule[i].ch = schedule[j].ch /\ schedule[i].seq < schedule[j].seq) =>
      (i < j /\ schedule[i].at <= schedule[j].at)

\* A connect() that passed the credential guard runs in this step.
SessionStarts ==
  \E k \in Attempts : att[k].pc = "idle" /\ att'[k].pc = "gum"

\* C11: the playback cursor nextStart is zero when a session starts and
\* never decreases afterwards, whatever buffers are scheduled and however
\* the output clock advances.
C11_CursorMonotone ==
  [][/\ SessionStarts => nextStart' = 0
     /\ ~SessionStarts => nextStart' >= nextStart]_vars

\* C11 witness: two buffers were scheduled, the second one after the clock
\* had advanced, and the cursor moved each time.
C11_Witness ==
  /\ Len(schedule) = 2
  /\ schedule[2].now > schedule[1].now
  /\ 0 < schedule[2].cursor
  /\ schedule[2].cursor < nextStart

\* C12: every buffer starts at the larger of the cursor and the output
\* clock, the cursor then is that start plus the buffer's duration, and of
\* two buffers scheduled one after the other in a session the second starts
\* no earlier than the first one ends.
C12_SchedulingRule ==
  \A i \in 1..Len(schedule) :
    LET e == schedule[i] IN
    /\ e.at = (IF e.cursor >= e.now THEN e.cursor ELSE e.now)
    /\ (i = Len(schedule) /\ e.gen = nConnect) => nextStart = e.at + e.dur
    /\ (i < Len(schedule) /\ schedule[i + 1].gen = e.gen) =>
         /\ schedule[i + 1].cursor = e.at + e.dur
         /\ schedule[i + 1].at >= e.at + e.dur

\* C12 witness: a 0.5 s buffer scheduled at clock 0, then a 0.3 s buffer
\* while the clock is not past 0.5: it starts at 0.5 and the cursor is 0.8.
C12_Witness ==
  /\ Len(schedule) = 2
  /\ schedule[1].now = 0 /\ schedule[1].at = 0 /\ schedule[1].dur = 5
  /\ schedule[2].now <= 5 /\ schedule[2].dur = 3
  /\ schedule[2].at = 5
  /\ nextStart = 8

\* The updateClarity invocations that arrived, and the tool responses that
\* were sent, each in order.
IsClarityInvocation(c) == c.name = "updateClarity"
IsToolResponse(m) == m.kind = "toolResponse"
ClarityInvocations == SelectSeq(invoked, IsClarityInvocation)
ToolResponses == SelectSeq(sent, IsToolResponse)

\* C13: every inbound function call named updateClarity is acknowledged
\* exactly once: the tool responses sent are, one for one and in arrival
\* order, the updateClarity invocations, each on the invocation's channel
\* with the invocation's id and the result "ok".
C13_AckExactlyOnce ==
  /\ Len(ToolResponses) = Len(ClarityInvocations)
  /\ \A i \in 1..Len(ClarityInvocations) :
       /\ ToolResponses[i].id = ClarityInvocations[i].id
       /\ ToolResponses[i].ch = ClarityInvocations[i].ch
       /\ ToolResponses[i].result = "ok"

\* C13 witness: one frame carried two updateClarity calls with different
\* ids and arguments; the second superseded the published state before the
\* first was acknowledged, and both were acknowledged.
C13_Witness ==
  /\ Len(arrived) = 1
  /\ Len(invoked) = 2
  /\ IsClarityInvocation(invoked[1]) /\ IsClarityInvocation(invoked[2])
  /\ invoked[1].id # invoked[2].id
  /\ invoked[1].args # invoked[2].args
  /\ clarity = invoked[2].args
  /\ Len(ToolResponses) = 2

\* C14: a step in which updateClarity invocations arrive leaves the clarity
\* shown equal to the arguments of the last of them, whole, and between
\* invocations the clarity shown changes only when a lesson is started or
\* finished: after any sequence of invocations it is the last one's.
C14_ClarityIsLastInvocation ==
  [][LET ci == ClarityInvocations' IN
     /\ ci # ClarityInvocations => clarity' = ci[Len(ci)].args
     /\ clarity' # clarity =>
          \/ ci # ClarityInvocations
          \/ clarity' \in {StartingLesson, LessonFinished}]_vars

\* C14 witness: an invocation with a language was followed by one without;
\* the clarity shown has no language.
C14_Witness ==
  LET ci == ClarityInvocations IN
  /\ Len(ci) = 2
  /\ ci[2].gen = nConnect
  /\ clarity = ci[2].args
  /\ "language" \in DOMAIN ci[1].args
  /\ "language" \notin DOMAIN ci[2].args
  /\ "language" \notin DOMAIN clarity
  /\ clarity.score = ci[2].args.score

\* The text of direction role that frame n carried, if it came on channel ch.
FragmentOf(ch, role, n) ==
  IF arrived[n].ch # ch THEN <<>>
  ELSE IF role = "user" THEN arrived[n].inText ELSE arrived[n].outText

\* The fragments of a direction that arrived on a channel after frame lo, up
\* to frame hi, concatenated in arrival order.
RECURSIVE ArrivedBetween(_, _, _, _)
ArrivedBetween(ch, role, lo, hi) ==
  IF hi <= lo THEN <<>>
  ELSE ArrivedBetween(ch, role, lo, hi - 1) \o FragmentOf(ch, role, hi)

\* The frame whose marker caused the flush before event j of the same
\* channel and direction; 0 when there was none.
PreviousFlush(j) ==
  LET before == {emitted[i].at : i \in {n \in 1..(j - 1) :
                     /\ emitted[n].ch = emitted[j].ch
                     /\ emitted[n].role = emitted[j].role}}
  IN IF before = {} THEN 0
     ELSE CHOOSE m \in before : \A n \in before : n <= m

\* C15: the text of every flushed event is the concatenation, in arrival
\* order and with nothing inserted, of the fragments of its direction that
\* arrived on its channel after the previous flush, up to the frame whose
\* turn-complete marker flushed it.
C15_FlushIsArrivalOrderConcat ==
  \A j \in 1..Len(emitted) :
    emitted[j].text =
      ArrivedBetween(emitted[j].ch, emitted[j].role, PreviousFlush(j),
                     emitted[j].at)

\* The events of direction role among evs.
EventsOf(evs, role) == {n \in 1..Len(evs) : evs[n].role = role}

\* C16: a turn-complete marker flushes each non-empty accumulator as exactly
\* one event, with the accumulator's text and tagged with its direction,
\* and leaves both accumulators empty, whatever text they held.
C16_FlushResetsBoth ==
  \A i \in 1..Len(turns) :
    LET t == turns[i] IN
    /\ t.user # <<>> =>
         /\ Cardinality(EventsOf(t.events, "user")) = 1
         /\ \A n \in EventsOf(t.events, "user") : t.events[n].text = t.user
    /\ t.model # <<>> =>
         /\ Cardinality(EventsOf(t.events, "model")) = 1
         /\ \A n \in EventsOf(t.events, "model") : t.events[n].text = t.model
    /\ t.userAfter = <<>>
    /\ t.modelAfter = <<>>

\* C17: a turn-complete marker handled while an accumulator is empty emits
\* no event of that direction, and a marker handled after another with no
\* fragment appended in between emits no event at all.
C17_EmptyFlushEmitsNothing ==
  \A i \in 1..Len(turns) :
    LET t == turns[i] IN
    /\ t.user = <<>> => EventsOf(t.events, "user") = {}
    /\ t.model = <<>> => EventsOf(t.events, "model") = {}
    /\ \A h \in 1..(i - 1) :
         (/\ turns[h].ch = t.ch
          /\ \A g \in (h + 1)..(i - 1) : turns[g].ch # t.ch
          /\ t.user = turns[h].userAfter
          /\ t.model = turns[h].modelAfter) => t.events = <<>>

\* C17 witness: a marker flushed one user event while the model accumulator
\* was empty, and a second marker followed with no fragment in between.
C17_Witness ==
  /\ Len(turns) = 2
  /\ turns[1].ch = turns[2].ch
  /\ turns[1].user # <<>> /\ turns[1].model = <<>>
  /\ Len(turns[1].events) = 1
  /\ turns[2].user = <<>> /\ turns[2].model = <<>>
  /\ Len(emitted) = 1

\* C18: teardown stops and clears the active playback set: whenever a
\* disconnect() invocation returns, the set is empty.
C18_TeardownEmptiesActiveSet ==
  [][(\E d \in DiscIds : Returns(d)) => sourceNodes' = {}]_vars

\* The frame timer's callback runs in this step.
TimerTicked ==
  /\ Len(ticks') = Len(ticks) + 1
  /\ ticks'[Len(ticks')].src = "timer"

\* The audio tap's callback runs in this step.
TapTicked ==
  /\ Len(ticks') = Len(ticks) + 1
  /\ ticks'[Len(ticks')].src = "tap"

\* The audio-only toggle goes on in this step: the state that setIsAudioOnly
\* sets, or the live value that the frame timer reads.
ToggledOn ==
  \/ isAudioOnly' /\ ~isAudioOnly
  \/ isAudioOnlyRef' /\ ~isAudioOnlyRef

\* C19: switching the audio-only toggle on leaves the audio taps, the audio
\* contexts, the capture streams and the connection state as they are.
\* While the live toggle, the value the frame timer re-checks, is on, a
\* tick of the timer sends nothing and a callback of the tap still sends
\* its chunk; and the live toggle does follow the toggle's state: when the
\* state is on, the live value comes on unless the state goes off again
\* or the UI is unmounted first.
C19_ToggleMutesFramesOnly ==
  /\ [][/\ ToggledOn =>
             UNCHANGED <<tap, audioProcessorRef, ctxIn, ctxOut, stream,
                         mediaStreamRef, connectionState>>
        /\ (TimerTicked /\ isAudioOnlyRef) => sent' = sent
        /\ (TapTicked /\ isAudioOnlyRef /\ inputCtxRef # 0) =>
             Len(sent') = Len(sent) + 1]_vars
  /\ isAudioOnly ~> (isAudioOnlyRef \/ ~isAudioOnly \/ ~mounted)

\* C19 witness: in a connected session started with video the toggle is on;
\* the frame timer ticked with the video ready and sent nothing, then the
\* tap ticked and sent its chunk.
C19_Witness ==
  \E k \in Attempts :
    /\ ~att[k].audioOnly
    /\ timer[k] = "active"
    /\ isAudioOnly /\ isAudioOnlyRef
    /\ connectionState = "CONNECTED"
    /\ stream[k] = "live"
    /\ ctxIn[k] = "running" /\ ctxOut[k] = "running"
    /\ Len(ticks) = 2
    /\ ticks[1].src = "timer" /\ ticks[1].ch = k
    /\ ticks[1].audioOnly /\ ticks[1].ready
    /\ ticks[2].src = "tap"
    /\ sent = <<AudioChunk(k, 2)>>

\* C20: a session started in audio-only mode has no frame timer and sends
\* no image chunk, whatever the toggle does afterwards.
C20_DowngradeOnly ==
  \A k \in Attempts :
    (att[k].pc # "idle" /\ att[k].audioOnly) =>
      /\ timer[k] = "none"
      /\ \A i \in 1..Len(sent) : ~(sent[i].kind = "image" /\ sent[i].ch = k)

\* C20 witness: a session started in audio-only mode is connected, the
\* toggle was switched off again, and the tap has sent a chunk since.
C20_Witness ==
  \E k \in Attempts :
    /\ att[k].audioOnly
    /\ chan[k] = "open"
    /\ connectionState = "CONNECTED"
    /\ ~isAudioOnly
    /\ \E i \in 1..Len(ticks) :
         /\ ticks[i].src = "tap" /\ ticks[i].ch = k /\ ~ticks[i].audioOnly
         /\ AudioChunk(k, i) \in {sent[j] : j \in 1..Len(sent)}

\* A sendTextMessage call made while no session is connected: the state is
\* DISCONNECTED or ERROR and no disconnect() is still running.
NoSessionConnected(t) ==
  t.state \in {"DISCONNECTED", "ERROR"} /\ ~t.tearing

IsText(m) == m.kind = "text"

\* C21: a sendTextMessage called while no session is connected (before any
\* connect, after disconnect() has completed, after a fatal error's
\* teardown) sends no outbound message, then or later.
C21_TextNeedsSession ==
  \A i \in 1..Len(sent) :
    IsText(sent[i]) => ~NoSessionConnected(texts[sent[i].n])

\* The callbacks of the tap and of the frame timer that handed a chunk to
\* the outbound sink.
Produced(n) ==
  \E i \in 1..Len(sent) :
    sent[i].kind \in {"audio", "image"} /\ sent[i].n = n

\* C22: every audio chunk the tap hands to the outbound sink and every
\* image chunk the frame timer hands to it is produced while the
\* connection state is CONNECTED, also while a teardown is suspended in the
\* close of a context and after a remote error has set the state to ERROR.
C22_CaptureOnlyWhileConnected ==
  \A n \in 1..Len(ticks) : Produced(n) => ticks[n].state = "CONNECTED"

\* The frames whose handler has run to its end or has ended in an error.
Handled == {s \in 1..Len(arrived) : \A d \in decodes : d.seq # s}

\* The number of characters of the user's transcription that the first n
\* frames brought on channel k, in frames that have been handled.
RECURSIVE UserCharsIn(_, _)
UserCharsIn(k, n) ==
  IF n = 0 THEN 0
  ELSE UserCharsIn(k, n - 1) +
         (IF n \in Handled /\ arrived[n].ch = k
          THEN Len(arrived[n].inText) ELSE 0)

\* The number of characters in the first n events that are the user's, of
\* channel k.
RECURSIVE UserCharsOut(_, _)
UserCharsOut(k, n) ==
  IF n = 0 THEN 0
  ELSE UserCharsOut(k, n - 1) +
         (IF emitted[n].ch = k /\ emitted[n].role = "user"
          THEN Len(emitted[n].text) ELSE 0)

\* C23: the parts of a frame are handled independently.  When the audio
\* payload of a frame fails to decode, the transcription fragment of the
\* same frame is still appended to its accumulator (so every character
\* handled is in the accumulator or in an event) and its turn-complete
\* marker still flushes.
C23_PartsIndependent ==
  \A s \in dropped :
    /\ arrived[s].turn => \E j \in 1..Len(turns) : turns[j].at = s
    /\ LET k == arrived[s].ch IN
       sessionRef = k =>
         UserCharsIn(k, Len(arrived)) =
           Len(curIn[k]) + UserCharsOut(k, Len(emitted))

\* A decode has failed in this step.
DecodeFails == dropped' # dropped

\* Two buffers scheduled one after the other in a session: the second one
\* found the cursor where the first one left it.
BackToBack ==
  \A n \in 1..(Len(schedule) - 1) :
    schedule[n + 1].gen = schedule[n].gen =>
      schedule[n + 1].cursor = schedule[n].at + schedule[n].dur

\* C24: a decode error is recovered locally.  The chunk is dropped: the
\* step changes neither nextStart nor the active set nor the schedule nor
\* the connection state, and the audio frames that follow are scheduled as
\* if the failing frame had not arrived.
C24_DecodeErrorLocal ==
  [][/\ DecodeFails =>
          UNCHANGED <<nextStart, sourceNodes, schedule, connectionState>>
     /\ BackToBack']_vars

\* C24 witness: in a connected session the first frame was scheduled, the
\* decode of the second one failed, and the cursor and the active set are
\* what the first frame left.
C24_Witness ==
  /\ connectionState = "CONNECTED"
  /\ dropped = {2}
  /\ Len(schedule) = 1
  /\ schedule[1].seq = 1
  /\ nextStart = schedule[1].at + schedule[1].dur
  /\ sourceNodes = {1}

\* The handles scheduled by frames of the session the hook holds now.
ScheduledInSession ==
  {schedule[n].seq : n \in {m \in 1..Len(schedule) : schedule[m].ch = sessionRef}}

\* C25: the active playback set holds exactly the handles that were
\* scheduled in the current session and have neither ended nor been stopped
\* by a teardown.
C25_ActiveSetExact ==
  sourceNodes = ScheduledInSession \ (ended \cup stopped)

\* Two chunks of one producer: the tap or the frame timer of one channel.
SameProducer(a, b) ==
  a.kind \in {"audio", "image"} /\ a.kind = b.kind /\ a.ch = b.ch

\* C26: outbound order is preserved per producer.  The audio chunks reach
\* the channel in the order of the tap callbacks that produced them and the
\* image chunks in the order of the timer callbacks, although every send is
\* queued on the session promise and not awaited.
C26_OrderPerProducer ==
  \A i, j \in 1..Len(sent) :
    (i < j /\ SameProducer(sent[i], sent[j])) => sent[i].n < sent[j].n

\* C26 witness: the tap fired twice and both chunks are on the channel.
C26_Witness ==
  \E k \in Attempts :
    /\ Len(ticks) = 2
    /\ ticks[1].src = "tap" /\ ticks[2].src = "tap"
    /\ sent = <<AudioChunk(k, 1), AudioChunk(k, 2)>>

\* The function calls that the frame handled in this step carried, and the
\* updateClarity calls among them.
NewCalls == SubSeq(invoked', Len(invoked) + 1, Len(invoked'))
NewClarityCalls == SelectSeq(NewCalls, IsClarityInvocation)

\* C27: a function call whose name is not updateClarity publishes no
\* clarity and is sent no acknowledgement, and it does not keep the
\* updateClarity calls of its frame from being published and acknowledged.
\* The frame's step sends exactly the acknowledgements of its updateClarity
\* calls, in their order, and no response ever bears another name; the
\* step leaves the clarity shown as it was when the frame has no
\* updateClarity call, and as the last of them says otherwise.
C27_OtherCallsIgnored ==
  [][/\ \A i \in 1..Len(invoked'), j \in 1..Len(sent') :
          (~IsClarityInvocation(invoked'[i]) /\ IsToolResponse(sent'[j]))
            => sent'[j].name # invoked'[i].name
     /\ invoked' # invoked =>
          /\ sent' = sent \o [i \in 1..Len(NewClarityCalls) |->
                                AckOf(NewClarityCalls[i].ch, NewClarityCalls[i])]
          /\ clarity' = IF NewClarityCalls = <<>> THEN clarity
                        ELSE NewClarityCalls[Len(NewClarityCalls)].args]_vars

\* C27 witness: one frame carried a call of another name and then an
\* updateClarity call; only the second was answered and published.
C27_Witness ==
  /\ Len(arrived) = 1
  /\ Len(invoked) = 2
  /\ ~IsClarityInvocation(invoked[1])
  /\ IsClarityInvocation(invoked[2])
  /\ sent = <<AckOf(invoked[2].ch, invoked[2])>>
  /\ clarity = invoked[2].args

\* A session was started and disconnect() has completed: the state is
\* DISCONNECTED, the session reference is released and no disconnect() is
\* still running.
DisconnectCompleted ==
  /\ nConnect > 0
  /\ connectionState = "DISCONNECTED"
  /\ sessionRef = 0
  /\ ~Suspended

\* C28: after disconnect() has completed the torn-down session has no
\* further effect.  Until connect() is called again, a step of the session
\* (any step but the end of the lesson's summary, which is the App's own)
\* publishes no clarity and no transcription event, and nothing
\* (acknowledgement, audio chunk, image chunk, text) is sent.
C28_NoEffectAfterTeardown ==
  [][(DisconnectCompleted /\ nConnect' = nConnect /\ summaries' = summaries)
        => UNCHANGED <<clarity, messages, emitted, sent>>]_vars

\* The text s ends with the text x.
EndsWith(s, x) ==
  Len(s) >= Len(x) /\ SubSeq(s, Len(s) - Len(x) + 1, Len(s)) = x

\* C29: a frame without audio carries a fragment and a turn-complete
\* marker.  The fragment is appended before the flush: the event emitted
\* for the frame ends with the fragment and the accumulator is empty
\* afterwards.  When both accumulators are non-empty at the flush, the
\* user's event is emitted and then the model's.
C29_AppendThenFlush ==
  \A j \in 1..Len(turns) :
    LET t == turns[j]
        f == arrived[t.at]
    IN
    ~f.hasAudio =>
      /\ f.inText # <<>> =>
           /\ \E n \in 1..Len(t.events) :
                t.events[n].role = "user" /\ EndsWith(t.events[n].text, f.inText)
           /\ t.userAfter = <<>>
      /\ f.outText # <<>> =>
           /\ \E n \in 1..Len(t.events) :
                t.events[n].role = "model" /\ EndsWith(t.events[n].text, f.outText)
           /\ t.modelAfter = <<>>
      /\ (t.user # <<>> /\ t.model # <<>>) =>
           t.events = <<[role |-> "user", text |-> t.user],
                        [role |-> "model", text |-> t.model]>>

\* C30: in a session started with video, whether a tick of the frame timer
\* sends an image depends only on the live audio-only toggle, the value the
\* timer reads at that tick, and on the video element having enough data: a
\* tick sends exactly when that value is off and the video is ready, so
\* after the toggle went on and off again the sampling resumes without a
\* reconnect.
C30_SamplingFollowsToggle ==
  \A n \in 1..Len(ticks) :
    ticks[n].src = "timer" =>
      (Produced(n) <=> (~ticks[n].audioOnly /\ ticks[n].ready))

\* C30 witness: in the one session started, with video, the toggle went on,
\* a tick sent nothing, the toggle went off, and the next tick sent an
\* image.
C30_Witness ==
  \E k \in Attempts :
    /\ nConnect = 1
    /\ ~att[k].audioOnly
    /\ connectionState = "CONNECTED"
    /\ Len(ticks) = 2
    /\ ticks[1].src = "timer" /\ ticks[1].audioOnly /\ ticks[1].ready
    /\ ticks[2].src = "timer" /\ ~ticks[2].audioOnly /\ ticks[2].ready
    /\ sent = <<ImageChunk(k, 2)>>

====
